---- MODULE Spec2Model ----
(***************************************************************************)
(* Capture-and-indexing core of mem: the live-stream session manager       *)
(* (RTMPServer), the stream capture processor, the frame deduplicator      *)
(* (FrameProcessor) and the timeline store (Database).                     *)
(*                                                                         *)
(* Scheduling: every RTMPServer method is called from an `async def` route *)
(* handler and contains no await, so each call runs to completion on the   *)
(* event loop.  A frame request is in flight while its body is read        *)
(* (`await file.read()`); other handlers may run during that time.         *)
(***************************************************************************)
EXTENDS Integers, Sequences, FiniteSets, TLC

\* ---------------------------------------------------------------- bounds
MaxStreams == 1
MaxKeys == 2
MaxSources == 2
MaxFrames == 2
MaxTime == 1
MaxInflight == 1
\* the deduplication runs: one session, more frames, overlapping requests
DedupSources == 1
DedupFrames == 3
DedupInflight == 2
\* the FrameProcessor runs: calls made on one processor, sources it tracks
MaxEvals == 4
MaxEvalSources == 2
\* the get_audio_chunks runs: audio length in frames, chunk and overlap seconds
MaxTotalFrames == 12
MaxChunkDuration == 5
MaxOverlap == 6

MaxWords == 5
MaxTexts == 2
MaxShortWords == 3

MaxSegments == 3
MaxSegTime == 4

\* the stream handler: images per stream, bytes between an image's markers,
\* bytes per read
MaxImages == 3
MaxBody == 2
ReadSize == 6

\* the batch job: the video's start time, frames and seconds of audio, and
\* the times a timeline query may name
MaxStart == 1
MaxVideoFrames == 2
MaxAudioSeconds == 3
MaxQueryTime == 2

\* ------------------------------------------------------- program constants
HashSize == 16
SimilarityThreshold == 95
NoId == 0
NoTime == -1

\* ------------------------------------------------------------- input sets
Addrs == {"10.0.0.1", "10.0.0.2"}

\* Fingerprints are the set of bit positions that are 1 in the 256-bit dhash.
HashBits == HashSize * HashSize
HashA == {}
HashB == 1 .. 102
HashC == 1 .. 103
HashD == 1 .. 205
HashFull == 1 .. HashBits

\* fingerprints handed to a bare FrameProcessor, and the thresholds it is built with
EvalHashes == {HashA, HashB, HashC, HashD, HashFull}
Thresholds == {50, 95, 100}

\* wav.getframerate() of the audio handed to get_audio_chunks
SampleRates == {1, 2}

\* A frame payload: kind "ok" decodes and hashes, "malformed" fails
\* Image.open, "truncated" opens (header readable) but fails to decode.
Images ==
    { [kind |-> "ok", hash |-> HashA, w |-> 640, h |-> 480],
      [kind |-> "ok", hash |-> HashB, w |-> 640, h |-> 480],
      [kind |-> "ok", hash |-> HashC, w |-> 640, h |-> 480],
      [kind |-> "malformed", hash |-> {}, w |-> 0, h |-> 0],
      [kind |-> "truncated", hash |-> {}, w |-> 640, h |-> 480] }

Statuses == {"waiting", "live", "ended", "error"}

Keys == 1 .. MaxKeys

VARIABLES
    sessions,     \* RTMPServer.sessions: stream_key -> StreamSession
    nextKey,      \* uuid4 never repeats: the next unused key / session id
    sources,      \* table sources, row i has source_id i
    frames,       \* table frames, row i has frame_id i
    timeline,     \* table timeline, row i has entry_id i
    last_hashes,  \* FrameProcessor.last_hashes of the processors, by source id
    inflight,     \* per stream key, the frame requests whose body is being read
    now,          \* datetime.now()
    lastOp,       \* the call made by the last step and what it returned
    threshold,    \* FrameProcessor.similarity_threshold
    evals,        \* the should_store_frame / reset_source calls made on a bare
                  \* FrameProcessor, with what they returned
    seg,          \* get_audio_chunks: its arguments and loop variables
    chunks,       \* get_audio_chunks: the chunks yielded so far
    merge,        \* merge_overlapping_texts: its argument and loop variables
    segments,     \* deduplicate_segments: its argument and what it returned
    ext,          \* stream_handler.extract_frames: the pipe and the parser state
    transcriptions, \* table transcriptions, row i has transcription_id i
    job,          \* VideoCaptureProcessor.process_video: the video and its progress
    rows          \* what the timeline queries returned

vars == <<sessions, nextKey, sources, frames, timeline, last_hashes, inflight, now, lastOp,
          threshold, evals, seg, chunks, merge, segments, ext, transcriptions, job, rows>>

\* what the session manager's handlers never touch
nonServer == <<threshold, evals, seg, chunks, merge, segments, ext, transcriptions, job, rows>>

store == <<sources, frames, timeline>>

\* ------------------------------------------------------------ FrameProcessor
HammingDistance(h1, h2) == Cardinality((h1 \ h2) \cup (h2 \ h1))

\* len(h1.hash.flatten()) * 8
MaxDistance == HashBits * 8

\* (1 - distance / max_distance) * 100, kept as the numerator over MaxDistance
CalculateSimilarity(h1, h2) == (MaxDistance - HammingDistance(h1, h2)) * 100

\* mutant: a frame exactly at the threshold counts as different
BelowThreshold_Inclusive(sim) == sim <= threshold * MaxDistance

\* similarity < self.similarity_threshold, both sides over MaxDistance
BelowThreshold(sim) == sim < threshold * MaxDistance

HasBaseline(lh, sid) == sid \in DOMAIN lh

\* mutant: the baseline follows the last observed frame, stored or not
ShouldStoreFrame_LastObserved(lh, sid, h) ==
    LET new == [s \in DOMAIN lh \cup {sid} |-> IF s = sid THEN h ELSE lh[s]] IN
    IF ~HasBaseline(lh, sid)
    THEN [should_store |-> TRUE, similarity |-> 0, lh |-> new]
    ELSE LET sim == CalculateSimilarity(h, lh[sid]) IN
         [should_store |-> BelowThreshold(sim), similarity |-> sim, lh |-> new]

\* should_store_frame: should_store, similarity, and last_hashes after the call
ShouldStoreFrame(lh, sid, h) ==
    IF ~HasBaseline(lh, sid)
    THEN [should_store |-> TRUE, similarity |-> 0,
          lh |-> [s \in DOMAIN lh \cup {sid} |-> IF s = sid THEN h ELSE lh[s]]]
    ELSE LET sim == CalculateSimilarity(h, lh[sid]) IN
         IF BelowThreshold(sim)
         THEN [should_store |-> TRUE, similarity |-> sim,
               lh |-> [lh EXCEPT ![sid] = h]]
         ELSE [should_store |-> FALSE, similarity |-> sim, lh |-> lh]

\* mutant: reset_source forgets to delete the entry
ResetSource_Keep(lh, sid) == lh

\* mutant: reset_source clears every source
ResetSource_All(lh, sid) == [s \in {} |-> {}]

\* reset_source
ResetSource(lh, sid) == [s \in DOMAIN lh \ {sid} |-> lh[s]]

\* ------------------------------------------------------------------ Database
CreateSource(srcs, t) == Append(srcs, [type |-> "stream", start |-> t, end |-> NoTime])

UpdateSourceEnd(srcs, sid, t) == [srcs EXCEPT ![sid].end = t]

StoreFrame(frs, sid, t, h) ==
    Append(frs, [source_id |-> sid, first_seen |-> t, last_seen |-> t, hash |-> h])

\* SELECT frame_id ... WHERE source_id = ? AND perceptual_hash = ? LIMIT 1:
\* the candidate rows; which one LIMIT 1 returns is not specified
FindSimilarFrame(frs, sid, h) ==
    { i \in 1 .. Len(frs) : frs[i].source_id = sid /\ frs[i].hash = h }

UpdateFrameLastSeen(frs, fid, t) == [frs EXCEPT ![fid].last_seen = t]

CreateTimelineEntry(tl, sid, t, fid, sim) ==
    Append(tl, [source_id |-> sid, timestamp |-> t, frame_id |-> fid, similarity |-> sim,
                transcription_id |-> NoId])

\* ------------------------------------------------------ StreamCaptureProcessor
NoProcessor == [exists |-> FALSE, active |-> FALSE, source_id |-> NoId]

NewSession(k) ==
    [session_id |-> k, stream_key |-> k, source_id |-> NoId, processor |-> NoProcessor,
     status |-> "waiting", started_at |-> NoTime,
     client_addr |-> "", width |-> NoId, height |-> NoId,
     frames_received |-> 0, frames_stored |-> 0]

\* mutant: the lookup creates a session for a key it does not know
Get_SetDefault(k) ==
    [found |-> TRUE,
     session |-> IF k \in DOMAIN sessions THEN sessions[k] ELSE NewSession(k)]

\* self.sessions.get(stream_key): None for a key that is not in the dict
Get(k) ==
    IF k \in DOMAIN sessions
    THEN [found |-> TRUE, session |-> sessions[k]]
    ELSE [found |-> FALSE, session |-> NewSession(k)]

Known(k) == Get(k).found

RECURSIVE SumUpTo(_, _)
SumUpTo(f, n) == IF n = 0 THEN 0 ELSE f[n] + SumUpTo(f, n - 1)

InflightTotal == SumUpTo(inflight, MaxKeys)

\* what a call is recorded with: the status it found, "unknown" for no session
PreStatus(k) == IF k \in DOMAIN sessions THEN sessions[k].status ELSE "unknown"

\* no get_audio_chunks call is under way
NoSegment == [phase |-> "idle"]

\* a function that has not been called
NotCalled == [phase |-> "idle"]

\* neither text merger called, no stream handler, no batch job, no query
RestInit ==
    /\ merge = NotCalled
    /\ segments = NotCalled
    /\ ext = NotCalled
    /\ transcriptions = << >>
    /\ job = NotCalled
    /\ rows = NotCalled

\* RTMPServer.__init__, an empty database, no request under way
ServerInit ==
    /\ sessions = << >>
    /\ nextKey = 1
    /\ sources = << >>
    /\ frames = << >>
    /\ timeline = << >>
    /\ last_hashes = << >>
    /\ inflight = [k \in Keys |-> 0]
    /\ now = 0
    /\ lastOp = [op |-> "init", key |-> NoId, ok |-> TRUE, pre |-> "unknown", arg |-> ""]

Init ==
    /\ ServerInit
    /\ threshold = SimilarityThreshold
    /\ evals = << >>
    /\ seg = NoSegment
    /\ chunks = << >>
    /\ RestInit

Tick ==
    /\ now < MaxTime
    /\ now' = now + 1
    /\ lastOp' = [op |-> "tick", key |-> NoId, ok |-> TRUE, pre |-> "unknown", arg |-> ""]
    /\ UNCHANGED <<sessions, nextKey, sources, frames, timeline, last_hashes, inflight>>
    /\ UNCHANGED nonServer

Op(name, k, result) ==
    [op |-> name, key |-> k, ok |-> result, pre |-> PreStatus(k), arg |-> ""]

Put(k, s) == [x \in DOMAIN sessions \cup {k} |-> IF x = k THEN s ELSE sessions[x]]

\* ------------------------------------------------------------------ RTMPServer
\* len(self.sessions) >= self.max_streams
AtCapacity == Cardinality(DOMAIN sessions) >= MaxStreams

CreateSession(B) ==
    /\ IF AtCapacity
       THEN /\ lastOp' = Op("create_session", NoId, FALSE)
            /\ UNCHANGED <<sessions, nextKey>>
       ELSE /\ nextKey <= B.keys
            /\ sessions' = Put(nextKey, NewSession(nextKey))
            /\ nextKey' = nextKey + 1
            /\ lastOp' = Op("create_session", nextKey, TRUE)
    /\ UNCHANGED <<sources, frames, timeline, last_hashes, inflight, now>>
    /\ UNCHANGED nonServer

\* mutant: a live session may be published to again
CanPublish_AlsoLive(s) == s.status \in {"waiting", "ended", "live"}

\* status "waiting", or "ended" (reconnection)
CanPublish(s) == s.status \in {"waiting", "ended"}

\* StreamCaptureProcessor.start_stream after a successful connect
StartStream(s, addr) ==
    LET sid == Len(sources) + 1 IN
    /\ sources' = CreateSource(sources, now)
    /\ sessions' = Put(s.stream_key,
          [s EXCEPT !.processor = [exists |-> TRUE, active |-> TRUE, source_id |-> sid],
                    !.source_id = sid, !.status = "live", !.started_at = now,
                    !.client_addr = addr, !.frames_received = 0, !.frames_stored = 0,
                    !.width = NoId, !.height = NoId])

\* outcome "ok": the processor starts; "ctor_fail": StreamCaptureProcessor()
\* raises; "start_fail": start_stream raises while connecting to the database
OnPublish(B, k, addr, outcome) ==
    /\ IF ~Known(k) \/ ~CanPublish(Get(k).session)
       THEN /\ outcome = "ok"
            /\ lastOp' = [Op("on_publish", k, FALSE) EXCEPT !.arg = addr]
            /\ UNCHANGED <<sessions, sources>>
       ELSE CASE outcome = "ok" ->
                   /\ Len(sources) < B.sources
                   /\ StartStream(Get(k).session, addr)
                   /\ lastOp' = [Op("on_publish", k, TRUE) EXCEPT !.arg = addr]
              [] outcome = "ctor_fail" ->
                   /\ sessions' = Put(k, [Get(k).session EXCEPT !.status = "error"])
                   /\ lastOp' = [Op("on_publish", k, FALSE) EXCEPT !.arg = addr]
                   /\ UNCHANGED sources
              [] outcome = "start_fail" ->
                   /\ sessions' = Put(k, [Get(k).session EXCEPT
                          !.processor = [exists |-> TRUE, active |-> FALSE, source_id |-> NoId],
                          !.status = "error"])
                   /\ lastOp' = [Op("on_publish", k, FALSE) EXCEPT !.arg = addr]
                   /\ UNCHANGED sources
    /\ UNCHANGED <<nextKey, frames, timeline, last_hashes, inflight, now>>
    /\ UNCHANGED nonServer

\* StreamCaptureProcessor.stop_stream: the sources table and the baselines after
ProcStopSources(p) ==
    IF p.active /\ p.source_id # NoId
    THEN UpdateSourceEnd(sources, p.source_id, now)
    ELSE sources

ProcStopHashes(p) ==
    IF p.active /\ p.source_id # NoId
    THEN ResetSource(last_hashes, p.source_id)
    ELSE last_hashes

OnPublishDone(k) ==
    /\ IF ~Known(k)
       THEN /\ lastOp' = Op("on_publish_done", k, FALSE)
            /\ UNCHANGED <<sessions, sources, last_hashes>>
       ELSE LET s == Get(k).session IN
            /\ sources' = IF s.processor.exists THEN ProcStopSources(s.processor) ELSE sources
            /\ last_hashes' = IF s.processor.exists THEN ProcStopHashes(s.processor) ELSE last_hashes
            /\ sessions' = Put(k, [s EXCEPT !.status = "ended", !.processor = NoProcessor])
            /\ lastOp' = Op("on_publish_done", k, TRUE)
    /\ UNCHANGED <<nextKey, frames, timeline, inflight, now>>
    /\ UNCHANGED nonServer

\* mutant: stop_stream forgets to drop the processor
StoppedSession_KeepProcessor(s) ==
    IF s.status = "live" THEN [s EXCEPT !.status = "ended"] ELSE s

\* RTMPServer.stop_stream on a known key: the session after
StoppedSession(s) ==
    IF s.status = "live"
    THEN [s EXCEPT !.status = "ended", !.processor = NoProcessor]
    ELSE s

StopEffects(s) ==
    /\ sources' = IF s.status = "live" /\ s.processor.exists
                  THEN ProcStopSources(s.processor) ELSE sources
    /\ last_hashes' = IF s.status = "live" /\ s.processor.exists
                      THEN ProcStopHashes(s.processor) ELSE last_hashes

StopStream(k) ==
    /\ IF ~Known(k)
       THEN /\ lastOp' = Op("stop_stream", k, FALSE)
            /\ UNCHANGED <<sessions, sources, last_hashes>>
       ELSE /\ StopEffects(Get(k).session)
            /\ sessions' = Put(k, StoppedSession(Get(k).session))
            /\ lastOp' = Op("stop_stream", k, TRUE)
    /\ UNCHANGED <<nextKey, frames, timeline, inflight, now>>
    /\ UNCHANGED nonServer

\* mutant: the session is dropped without being stopped
DeleteEffects_NoStop(s) == sources' = sources /\ last_hashes' = last_hashes

\* self.stop_stream(stream_key) before the del
DeleteEffects(s) == StopEffects(s)

DeleteSession(k) ==
    /\ IF ~Known(k)
       THEN /\ lastOp' = Op("delete_session", k, FALSE)
            /\ UNCHANGED <<sessions, sources, last_hashes>>
       ELSE /\ DeleteEffects(Get(k).session)
            /\ sessions' = [x \in DOMAIN sessions \ {k} |-> sessions[x]]
            /\ lastOp' = Op("delete_session", k, TRUE)
    /\ UNCHANGED <<nextKey, frames, timeline, inflight, now>>
    /\ UNCHANGED nonServer

\* ------------------------------------------------------------ frame ingestion
\* the route handler is entered and starts reading the uploaded body
Arrive(B, k) ==
    /\ InflightTotal < B.inflight
    /\ inflight' = [inflight EXCEPT ![k] = @ + 1]
    /\ lastOp' = Op("arrive", k, TRUE)
    /\ UNCHANGED <<sessions, nextKey, sources, frames, timeline, last_hashes, now>>
    /\ UNCHANGED nonServer

\* mutant: the status check is missing
IsLive_Always(s) == TRUE

\* session.status != "live" -> return False
IsLive(s) == s.status = "live"

\* timestamp = datetime.now() in capture_frame
Timestamp == now

\* mutant: a frame that was just stored gets no Timeline row
CaptureTimeline_SkipStored(sid, t, fid, sim) ==
    IF fid = Len(frames) + 1 THEN timeline ELSE CreateTimelineEntry(timeline, sid, t, fid, sim)

\* the Timeline row capture_frame ends with
CaptureTimeline(sid, t, fid, sim) == CreateTimelineEntry(timeline, sid, t, fid, sim)

\* mutant: a frame that cannot be opened still gets a Timeline row
CaptureUndecodable_Timeline(p) ==
    /\ timeline' = CreateTimelineEntry(timeline, p.source_id, Timestamp, NoId, 0)
    /\ UNCHANGED <<frames, last_hashes>>

\* capture_frame when Image.open fails: "Failed to parse frame dimensions", return
CaptureUndecodable(p) == UNCHANGED <<frames, timeline, last_hashes>>

\* capture_frame on a decodable image
CaptureFrame(p, img) ==
    LET sid == p.source_id
        t == Timestamp
        d == ShouldStoreFrame(last_hashes, sid, img.hash)
    IN  /\ last_hashes' = d.lh
        /\ IF d.should_store
           THEN /\ frames' = StoreFrame(frames, sid, t, img.hash)
                /\ timeline' = CaptureTimeline(sid, t, Len(frames) + 1, d.similarity)
           ELSE LET found == FindSimilarFrame(frames, sid, img.hash) IN
                IF found = {}
                THEN /\ frames' = frames
                     /\ timeline' = CaptureTimeline(sid, t, NoId, d.similarity)
                ELSE \E fid \in found :
                     /\ frames' = UpdateFrameLastSeen(frames, fid, t)
                     /\ timeline' = CaptureTimeline(sid, t, fid, d.similarity)

\* the body has been read: rtmp_server.ingest_frame(stream_key, frame_data)
IngestFrame(B, k, img) ==
    /\ inflight[k] > 0
    /\ inflight' = [inflight EXCEPT ![k] = @ - 1]
    /\ IF ~Known(k) \/ ~IsLive(Get(k).session) \/ ~Get(k).session.processor.exists
       THEN /\ lastOp' = Op("ingest_frame", k, FALSE)
            /\ UNCHANGED <<sessions, frames, timeline, last_hashes>>
       ELSE LET s == Get(k).session
                p == s.processor
                s1 == [s EXCEPT !.frames_received = @ + 1]
            IN  /\ s.frames_received < B.frames
                /\ Len(timeline) < B.frames
                /\ IF ~p.active \/ p.source_id = NoId \/ img.kind = "truncated"
                   THEN \* capture_frame raises: "Stream not active", or the hash fails
                        /\ sessions' = Put(k, s1)
                        /\ lastOp' = [Op("ingest_frame", k, FALSE) EXCEPT !.arg = img.kind]
                        /\ UNCHANGED <<frames, timeline, last_hashes>>
                   ELSE IF img.kind = "malformed"
                   THEN \* capture_frame logs and returns; Image.open fails again
                        /\ CaptureUndecodable(p)
                        /\ sessions' = Put(k, [s1 EXCEPT !.frames_stored = @ + 1])
                        /\ lastOp' = [Op("ingest_frame", k, TRUE) EXCEPT !.arg = img.kind]
                   ELSE /\ CaptureFrame(p, img)
                        /\ sessions' = Put(k,
                              [s1 EXCEPT !.frames_stored = @ + 1,
                                         !.width = IF s.width = NoId THEN img.w ELSE @,
                                         !.height = IF s.width = NoId THEN img.h ELSE @])
                        /\ lastOp' = [Op("ingest_frame", k, TRUE) EXCEPT !.arg = img.kind]
    /\ UNCHANGED <<nextKey, sources, now>>
    /\ UNCHANGED nonServer

\* B bounds a run: stream keys handed out, sources opened, frames per
\* session and in the timeline, frame requests in flight
NextB(B) ==
    \/ Tick
    \/ CreateSession(B)
    \/ \E k \in 1 .. B.keys, a \in Addrs, o \in {"ok", "ctor_fail", "start_fail"} :
          OnPublish(B, k, a, o)
    \/ \E k \in 1 .. B.keys : OnPublishDone(k)
    \/ \E k \in 1 .. B.keys : StopStream(k)
    \/ \E k \in 1 .. B.keys : DeleteSession(k)
    \/ \E k \in 1 .. B.keys : Arrive(B, k)
    \/ \E k \in 1 .. B.keys, img \in Images : IngestFrame(B, k, img)

Next ==
    NextB([keys |-> MaxKeys, sources |-> MaxSources, frames |-> MaxFrames,
           inflight |-> MaxInflight])

NextDedup ==
    NextB([keys |-> 1, sources |-> DedupSources, frames |-> DedupFrames,
           inflight |-> DedupInflight])

\* the session manager with several keys and a reconnect
Spec == Init /\ [][Next]_vars

\* one session, with enough frames for the deduplication cases
SpecDedup == Init /\ [][NextDedup]_vars

\* ------------------------------------------- FrameProcessor called on its own
serverVars == <<sessions, nextKey, sources, frames, timeline, inflight, now, lastOp>>

restVars == <<merge, segments, ext, transcriptions, job, rows>>

InitFrame ==
    /\ ServerInit
    /\ threshold \in Thresholds
    /\ evals = << >>
    /\ seg = NoSegment
    /\ chunks = << >>
    /\ RestInit

\* should_store_frame(source_id, image_bytes) on an image that hashes to h
CallShouldStoreFrame(sid, h) ==
    LET d == ShouldStoreFrame(last_hashes, sid, h) IN
    /\ Len(evals) < MaxEvals
    /\ last_hashes' = d.lh
    /\ evals' = Append(evals, [op |-> "should_store_frame", source |-> sid, hash |-> h,
                               should_store |-> d.should_store, similarity |-> d.similarity])
    /\ UNCHANGED <<serverVars, threshold, seg, chunks>>
    /\ UNCHANGED restVars

\* should_store_frame on bytes that calculate_hash cannot decode: it raises
\* before last_hashes is read
CallShouldStoreFrameCorrupt(sid) ==
    /\ Len(evals) < MaxEvals
    /\ evals' = Append(evals, [op |-> "raise", source |-> sid, hash |-> {},
                               should_store |-> FALSE, similarity |-> 0])
    /\ UNCHANGED <<serverVars, last_hashes, threshold, seg, chunks>>
    /\ UNCHANGED restVars

\* reset_source(source_id)
CallResetSource(sid) ==
    /\ Len(evals) < MaxEvals
    /\ last_hashes' = ResetSource(last_hashes, sid)
    /\ evals' = Append(evals, [op |-> "reset_source", source |-> sid, hash |-> {},
                               should_store |-> FALSE, similarity |-> 0])
    /\ UNCHANGED <<serverVars, threshold, seg, chunks>>
    /\ UNCHANGED restVars

NextFrame ==
    \/ \E sid \in 1 .. MaxEvalSources, h \in EvalHashes : CallShouldStoreFrame(sid, h)
    \/ \E sid \in 1 .. MaxEvalSources : CallShouldStoreFrameCorrupt(sid)
    \/ \E sid \in 1 .. MaxEvalSources : CallResetSource(sid)

\* one FrameProcessor, any threshold, any sequence of calls
SpecFrame == InitFrame /\ [][NextFrame]_vars

\* ------------------------------------------------------------ get_audio_chunks
\* Positions are kept in frames: a chunk's *_seconds value is the recorded
\* frame count divided by its sample_rate.  None is << >>, a value v is <<v>>.
None == << >>

Some(v) == <<v>>

Min(a, b) == IF a <= b THEN a ELSE b

\* int(sample_rate * chunk_duration)
ChunkFrames(g) == g.sample_rate * g.chunk_duration

\* int(sample_rate * overlap_seconds)
OverlapFrames(g) == g.sample_rate * g.overlap_seconds

\* step_frames, with the fallback for an overlap that is too large
StepFrames(g) ==
    IF ChunkFrames(g) - OverlapFrames(g) <= 0
    THEN ChunkFrames(g)
    ELSE ChunkFrames(g) - OverlapFrames(g)

\* mutant: the last chunk is padded to the full chunk length
EndFrame_Padded(g) == g.start_frame + ChunkFrames(g)

\* end_frame = min(start_frame + chunk_frames, total_frames)
EndFrame(g) == Min(g.start_frame + ChunkFrames(g), g.total_frames)

HasOverlapBefore(g) == g.chunk_index > 0 /\ g.overlap_seconds > 0

HasOverlapAfter(g) == EndFrame(g) < g.total_frames /\ g.overlap_seconds > 0

\* the dict yielded for the chunk at start_frame
YieldedChunk(g) ==
    [index |-> g.chunk_index,
     start_frame |-> g.start_frame,
     end_frame |-> EndFrame(g),
     sample_rate |-> g.sample_rate,
     has_overlap |-> HasOverlapBefore(g) \/ HasOverlapAfter(g),
     overlap_start |-> IF HasOverlapBefore(g) THEN Some(g.start_frame) ELSE None,
     overlap_end |-> IF HasOverlapAfter(g)
                     THEN Some(EndFrame(g) - OverlapFrames(g)) ELSE None]

\* get_audio_chunks(audio_path, chunk_duration, overlap_seconds) is called
InitSeg ==
    /\ ServerInit
    /\ threshold = SimilarityThreshold
    /\ evals = << >>
    /\ seg \in [phase : {"running"}, sample_rate : SampleRates,
                total_frames : 0 .. MaxTotalFrames,
                chunk_duration : 1 .. MaxChunkDuration,
                overlap_seconds : 0 .. MaxOverlap,
                start_frame : {0}, chunk_index : {0}]
    /\ chunks = << >>
    /\ RestInit

\* one pass of the while loop: yield, then advance
YieldChunk ==
    /\ seg.phase = "running"
    /\ seg.start_frame < seg.total_frames
    /\ chunks' = Append(chunks, YieldedChunk(seg))
    /\ seg' = [seg EXCEPT !.start_frame = @ + StepFrames(seg), !.chunk_index = @ + 1]
    /\ UNCHANGED <<serverVars, last_hashes, threshold, evals>>
    /\ UNCHANGED restVars

\* the while condition fails: the generator is exhausted
EndChunks ==
    /\ seg.phase = "running"
    /\ seg.start_frame >= seg.total_frames
    /\ seg' = [seg EXCEPT !.phase = "done"]
    /\ UNCHANGED <<serverVars, last_hashes, threshold, evals, chunks>>
    /\ UNCHANGED restVars

NextSeg == YieldChunk \/ EndChunks

\* one get_audio_chunks call, for every audio length, chunk duration and overlap
SpecSeg == InitSeg /\ [][NextSeg]_vars

\* ------------------------------------------------------------- text_merger.py
\* A text is the sequence of its words, written with one space between words
\* and none around them; a word is one of Words.  Character positions are
\* computed from the lengths of the words, as the code computes them.
Words == {"a", "A", "bb"}

\* the words of the three-fragment lists
ShortWords == {"a", "bb"}

\* len(word)
WordLen(w) == IF w = "bb" THEN 2 ELSE 1

\* word.lower()
Lower(w) == IF w = "A" THEN "a" ELSE w

Confidences == {1, 2}

\* all texts of at most n words over the words ws
TextsOver(ws, n) == UNION { [1 .. m -> ws] : m \in 0 .. n }

RECURSIVE JoinLen(_)
\* len(" ".join(words))
JoinLen(ws) ==
    IF ws = << >> THEN 0
    ELSE IF Len(ws) = 1 THEN WordLen(ws[1])
    ELSE WordLen(ws[1]) + 1 + JoinLen(Tail(ws))

\* the character at which word i of the text starts
WordStart(ws, i) == IF i = 1 THEN 0 ELSE JoinLen(SubSeq(ws, 1, i - 1)) + 1

\* text[:pos].rstrip(): the words that start before character pos
TextBefore(ws, pos) ==
    SubSeq(ws, 1, Cardinality({i \in 1 .. Len(ws) : WordStart(ws, i) < pos}))

\* text[pos:]: the words that start at character pos or later
TextFrom(ws, pos) ==
    SubSeq(ws, Cardinality({i \in 1 .. Len(ws) : WordStart(ws, i) < pos}) + 1, Len(ws))

RECURSIVE CommonLen(_, _, _)
\* how many leading words of a and b are equal ignoring case, counting from i
CommonLen(a, b, i) ==
    IF i < Len(a) /\ i < Len(b) /\ Lower(a[i + 1]) = Lower(b[i + 1])
    THEN CommonLen(a, b, i + 1)
    ELSE i

\* match_length for one start_idx (0-based) of find_overlap
MatchLength(words1, words2, start_idx) ==
    CommonLen(SubSeq(words1, start_idx + 1, Len(words1)), words2, 0)

\* possible_overlap = min(len(words2), len(words1) - start_idx)
PossibleOverlap(words1, words2, start_idx) == Min(Len(words2), Len(words1) - start_idx)

\* the least match find_overlap accepts
MinMatch == 3

\* mutant: a match must be longer than three words
Qualifies_FourWords(words1, words2, start_idx, ratio, best) ==
    LET m == MatchLength(words1, words2, start_idx) IN
    /\ m >= 4 /\ m > best
    /\ m * 100 >= ratio * PossibleOverlap(words1, words2, start_idx)

\* match_length >= 3 and match_length > best_match_length and
\* match_length / possible_overlap >= min_overlap_ratio (ratio in percent)
Qualifies(words1, words2, start_idx, ratio, best) ==
    LET m == MatchLength(words1, words2, start_idx) IN
    /\ m >= MinMatch /\ m > best
    /\ m * 100 >= ratio * PossibleOverlap(words1, words2, start_idx)

RECURSIVE BestMatch(_, _, _, _, _)
\* the for loop of find_overlap from start_idx on: [len, start] of the best
\* match, b being the best before start_idx
BestMatch(words1, words2, ratio, start_idx, b) ==
    IF start_idx > Len(words1) - 3 THEN b
    ELSE BestMatch(words1, words2, ratio, start_idx + 1,
                   IF Qualifies(words1, words2, start_idx, ratio, b.len)
                   THEN [len |-> MatchLength(words1, words2, start_idx), start |-> start_idx]
                   ELSE b)

\* find_overlap(text1, text2, min_overlap_ratio): None or the character
\* position in text1 where the overlap starts
FindOverlap(text1, text2, ratio) ==
    IF text1 = << >> \/ text2 = << >> THEN None
    ELSE IF Len(text1) < 3 \/ Len(text2) < 3 THEN None
    ELSE LET b == BestMatch(text1, text2, ratio, 0, [len |-> 0, start |-> -1]) IN
         IF b.start = -1 THEN None
         ELSE IF b.start = 0 THEN Some(0)
         ELSE Some(JoinLen(SubSeq(text1, 1, b.start)) + 1)

\* overlap_threshold of merge_overlapping_texts, in percent
OverlapThreshold == 80

\* the text carried on after an overlap when the current fragment's
\* confidence is not lower
KeepCurrent(overlap_in_current, next_text) ==
    LET common_len == CommonLen(overlap_in_current, next_text, 0) IN
    IF common_len > 0
    THEN overlap_in_current \o SubSeq(next_text, common_len + 1, Len(next_text))
    ELSE next_text

\* mutant: a fragment without overlap is replaced by the next, not kept
MergePair_NoAppend(m, nxt) ==
    LET pos == FindOverlap(m.current_text, nxt.text, OverlapThreshold) IN
    IF pos # None
    THEN [m EXCEPT
            !.merged_parts = IF pos[1] > 0
                             THEN Append(@, TextBefore(m.current_text, pos[1])) ELSE @,
            !.current_text = IF nxt.confidence > m.current_confidence
                             THEN nxt.text
                             ELSE KeepCurrent(TextFrom(m.current_text, pos[1]), nxt.text),
            !.current_confidence = IF nxt.confidence > @ THEN nxt.confidence ELSE @]
    ELSE [m EXCEPT !.current_text = nxt.text,
                   !.current_confidence = nxt.confidence]

\* one pass of the for loop of merge_overlapping_texts, on the fragment nxt
MergePair(m, nxt) ==
    LET pos == FindOverlap(m.current_text, nxt.text, OverlapThreshold) IN
    IF pos # None
    THEN [m EXCEPT
            !.merged_parts = IF pos[1] > 0
                             THEN Append(@, TextBefore(m.current_text, pos[1])) ELSE @,
            !.current_text = IF nxt.confidence > m.current_confidence
                             THEN nxt.text
                             ELSE KeepCurrent(TextFrom(m.current_text, pos[1]), nxt.text),
            !.current_confidence = IF nxt.confidence > @ THEN nxt.confidence ELSE @]
    ELSE [m EXCEPT !.merged_parts = Append(@, m.current_text),
                   !.current_text = nxt.text,
                   !.current_confidence = nxt.confidence]

RECURSIVE Join(_)
\* " ".join(parts) followed by " ".join(text.split())
Join(parts) == IF parts = << >> THEN << >> ELSE Head(parts) \o Join(Tail(parts))

Fragments(ws, n) == [text : TextsOver(ws, n), confidence : Confidences]

\* merge_overlapping_texts(texts) is called: up to MaxTexts fragments of up to
\* MaxWords words, or MaxTexts + 1 fragments of up to MaxShortWords words
InitMerge ==
    /\ ServerInit
    /\ threshold = SimilarityThreshold
    /\ evals = << >>
    /\ seg = NoSegment
    /\ chunks = << >>
    /\ segments = NotCalled
    /\ ext = NotCalled
    /\ transcriptions = << >>
    /\ job = NotCalled
    /\ rows = NotCalled
    /\ \E ts \in UNION { [1 .. n -> Fragments(Words, MaxWords)] : n \in 0 .. MaxTexts }
                 \cup [1 .. MaxTexts + 1 -> Fragments(ShortWords, MaxShortWords)] :
          merge = [phase |-> "called", texts |-> ts, i |-> 0, merged_parts |-> << >>,
                   current_text |-> << >>, current_confidence |-> 0, out |-> << >>]

mergeRest == <<serverVars, last_hashes, threshold, evals, seg, chunks,
               segments, ext, transcriptions, job, rows>>

\* the two early returns, or the assignments before the loop
MergeBegin ==
    /\ merge.phase = "called"
    /\ merge' = IF merge.texts = << >>
                THEN [merge EXCEPT !.phase = "done", !.out = << >>]
                ELSE IF Len(merge.texts) = 1
                THEN [merge EXCEPT !.phase = "done", !.out = merge.texts[1].text]
                ELSE [merge EXCEPT !.phase = "loop", !.i = 2,
                                   !.current_text = merge.texts[1].text,
                                   !.current_confidence = merge.texts[1].confidence]
    /\ UNCHANGED mergeRest

\* for i in range(1, len(texts)): one pass
MergeStep ==
    /\ merge.phase = "loop"
    /\ merge.i <= Len(merge.texts)
    /\ merge' = [MergePair(merge, merge.texts[merge.i]) EXCEPT !.i = merge.i + 1]
    /\ UNCHANGED mergeRest

\* after the loop: the last fragment is added and the parts are joined
MergeEnd ==
    /\ merge.phase = "loop"
    /\ merge.i > Len(merge.texts)
    /\ merge' = [merge EXCEPT !.phase = "done",
                              !.out = Join(Append(merge.merged_parts, merge.current_text))]
    /\ UNCHANGED mergeRest

NextMerge == MergeBegin \/ MergeStep \/ MergeEnd

\* one merge_overlapping_texts call, for every list of fragments
SpecMerge == InitMerge /\ [][NextMerge]_vars

\* -------------------------------------------------------- deduplicate_segments
\* A segment is [text, start, end]; times are counted in half seconds.
SegTexts == {"hi", "Hi", "hello"}

\* text.strip().lower()
SegLower(t) == IF t = "Hi" THEN "hi" ELSE t

\* len(text)
SegLen(t) == IF t = "hello" THEN 5 ELSE 2

\* the 0.5 s of a significant overlap, in half seconds
SignificantOverlap == 1

Segments == { g \in [text : SegTexts, start : 0 .. MaxSegTime, end : 0 .. MaxSegTime] :
                 g.start < g.end }

RECURSIVE InsertByStart(_, _)
\* g put behind the last segment of the sorted list that starts no later
InsertByStart(sorted, g) ==
    IF sorted = << >> THEN <<g>>
    ELSE IF sorted[Len(sorted)].start <= g.start THEN Append(sorted, g)
    ELSE Append(InsertByStart(SubSeq(sorted, 1, Len(sorted) - 1), g), sorted[Len(sorted)])

RECURSIVE SortByStart(_)
\* sorted(segments, key=lambda x: x["start"]): stable
SortByStart(gs) ==
    IF gs = << >> THEN << >>
    ELSE InsertByStart(SortByStart(SubSeq(gs, 1, Len(gs) - 1)), gs[Len(gs)])

\* the body of the for loop: deduplicated after the segment g; last_segment
\* is the last element of deduplicated throughout
DedupSegment(d, g) ==
    IF d = << >> THEN <<g>>
    ELSE LET last_segment == d[Len(d)] IN
         IF g.start < last_segment.end
         THEN IF SegLower(g.text) = SegLower(last_segment.text)
              THEN [d EXCEPT ![Len(d)].end = IF g.end > @ THEN g.end ELSE @]
              ELSE IF g.start < last_segment.end - SignificantOverlap
                   THEN IF SegLen(g.text) > SegLen(last_segment.text)
                        THEN [d EXCEPT ![Len(d)] = g]
                        ELSE d
                   ELSE Append(d, g)
         ELSE Append(d, g)

\* deduplicate_segments(segments) is called on up to MaxSegments segments
InitSegments ==
    /\ ServerInit
    /\ threshold = SimilarityThreshold
    /\ evals = << >>
    /\ seg = NoSegment
    /\ chunks = << >>
    /\ merge = NotCalled
    /\ ext = NotCalled
    /\ transcriptions = << >>
    /\ job = NotCalled
    /\ rows = NotCalled
    /\ \E gs \in UNION { [1 .. n -> Segments] : n \in 0 .. MaxSegments } :
          segments = [phase |-> "called", input |-> gs, sorted |-> << >>, i |-> 0,
                      deduplicated |-> << >>]

segmentsRest == <<serverVars, last_hashes, threshold, evals, seg, chunks,
                  merge, ext, transcriptions, job, rows>>

\* the early return, or the sort
DedupBegin ==
    /\ segments.phase = "called"
    /\ segments' = IF Len(segments.input) <= 1
                   THEN [segments EXCEPT !.phase = "done", !.deduplicated = segments.input]
                   ELSE [segments EXCEPT !.phase = "loop", !.i = 1,
                                         !.sorted = SortByStart(segments.input)]
    /\ UNCHANGED segmentsRest

\* for segment in sorted_segments: one pass
DedupStep ==
    /\ segments.phase = "loop"
    /\ segments.i <= Len(segments.sorted)
    /\ segments' = [segments EXCEPT
                       !.i = @ + 1,
                       !.deduplicated = DedupSegment(@, segments.sorted[segments.i])]
    /\ UNCHANGED segmentsRest

\* return deduplicated
DedupReturn ==
    /\ segments.phase = "loop"
    /\ segments.i > Len(segments.sorted)
    /\ segments' = [segments EXCEPT !.phase = "done"]
    /\ UNCHANGED segmentsRest

NextSegments == DedupBegin \/ DedupStep \/ DedupReturn

\* one deduplicate_segments call, for every list of segments
SpecSegments == InitSegments /\ [][NextSegments]_vars

\* ------------------------------------------- stream_handler.extract_frames
\* What FFmpeg writes to the pipe is a sequence of complete JPEG images; a
\* byte is "FF", "D8", "D9" or "00" (any other value).
jpeg_start == <<"FF", "D8">>

jpeg_end == <<"FF", "D9">>

\* an image with n bytes between its markers
Jpeg(n) == jpeg_start \o [i \in 1 .. n |-> "00"] \o jpeg_end

RECURSIVE Concat(_)
Concat(ss) == IF ss = << >> THEN << >> ELSE Head(ss) \o Concat(Tail(ss))

\* bytes a[from ..] of a 0-based slice: chunk[i:]
From(chunk, i) == SubSeq(chunk, i + 1, Len(chunk))

\* jpeg_buffer[-2:]
LastTwo(b) == SubSeq(b, Len(b) - 1, Len(b))

RECURSIVE ParseChunk(_, _, _)
\* the inner while loop over one chunk, from index i (0-based) on;
\* p is [in_jpeg, jpeg_buffer, posted]
ParseChunk(p, chunk, i) ==
    IF i >= Len(chunk) THEN p
    ELSE IF ~p.in_jpeg
    THEN IF i + 1 < Len(chunk) /\ SubSeq(chunk, i + 1, i + 2) = jpeg_start
         THEN [p EXCEPT !.jpeg_buffer = From(chunk, i), !.in_jpeg = TRUE]
         ELSE ParseChunk(p, chunk, i + 1)
    ELSE LET b == Append(p.jpeg_buffer, chunk[i + 1]) IN
         IF Len(b) >= 2 /\ LastTwo(b) = jpeg_end
         THEN ParseChunk([p EXCEPT !.posted = Append(@, b), !.jpeg_buffer = << >>,
                                   !.in_jpeg = FALSE], chunk, i + 1)
         ELSE ParseChunk([p EXCEPT !.jpeg_buffer = b], chunk, i + 1)

\* extract_frames has started FFmpeg, which will write up to MaxImages images
\* with up to MaxBody bytes between the markers
InitExt ==
    /\ ServerInit
    /\ threshold = SimilarityThreshold
    /\ evals = << >>
    /\ seg = NoSegment
    /\ chunks = << >>
    /\ merge = NotCalled
    /\ segments = NotCalled
    /\ transcriptions = << >>
    /\ job = NotCalled
    /\ rows = NotCalled
    /\ \E ns \in UNION { [1 .. n -> 0 .. MaxBody] : n \in 1 .. MaxImages } :
          ext = [phase |-> "running",
                 images |-> [i \in 1 .. Len(ns) |-> Jpeg(ns[i])],
                 pipe |-> Concat([i \in 1 .. Len(ns) |-> Jpeg(ns[i])]),
                 in_jpeg |-> FALSE, jpeg_buffer |-> << >>, posted |-> << >>]

extRest == <<serverVars, last_hashes, threshold, evals, seg, chunks,
             merge, segments, transcriptions, job, rows>>

\* chunk = process.stdout.read(4096) returns n bytes, which are parsed
ReadChunk(n) ==
    /\ ext.phase = "running"
    /\ n <= Len(ext.pipe)
    /\ LET p == ParseChunk(ext, SubSeq(ext.pipe, 1, n), 0) IN
       ext' = [p EXCEPT !.pipe = From(ext.pipe, n)]
    /\ UNCHANGED extRest

\* the read returns nothing and FFmpeg has exited: break
ReadEnd ==
    /\ ext.phase = "running"
    /\ ext.pipe = << >>
    /\ ext' = [ext EXCEPT !.phase = "done"]
    /\ UNCHANGED extRest

NextExt ==
    \/ \E n \in 1 .. ReadSize : ReadChunk(n)
    \/ ReadEnd

\* one extract_frames run, for every stream of images and every division of
\* it into reads
SpecExt == InitExt /\ [][NextExt]_vars

\* ------------------------------------- VideoCaptureProcessor.process_video
\* create_source for a video: the end is known from the video's duration
CreateVideoSource(srcs, start, end) == Append(srcs, [type |-> "video", start |-> start, end |-> end])

\* INSERT INTO transcriptions ... RETURNING transcription_id
StoreTranscription(trs, sid, start, end, kind) ==
    Append(trs, [source_id |-> sid, start |-> start, end |-> end, text |-> kind])

\* UPDATE timeline SET transcription_id = ? WHERE source_id = ? AND
\* timestamp >= ? AND timestamp <= ?
UpdateTimelineTranscriptions(tl, sid, start, end, tid) ==
    [i \in 1 .. Len(tl) |->
        IF tl[i].source_id = sid /\ tl[i].timestamp >= start /\ tl[i].timestamp <= end
        THEN [tl[i] EXCEPT !.transcription_id = tid]
        ELSE tl[i]]

\* the hashes of the frames of a video
VideoHashes == {HashA, HashB}

\* what transcribe_chunk does on a chunk: a text, an empty text, a non-speech
\* marker, or an exception: a timeout, or the transcriber is unavailable
ChunkOutcomes == {"text", "empty", "non_speech", "timeout", "unavailable"}

ChunkErrors == {"timeout", "unavailable"}

\* the videos: a file name that carries a timestamp or not, frames every
\* interval seconds, an audio track or none
Videos ==
    [name_ok : BOOLEAN, start : 0 .. MaxStart,
     hashes : UNION { [1 .. n -> VideoHashes] : n \in 0 .. MaxVideoFrames },
     interval : {1},
     has_audio : BOOLEAN, audio_seconds : 0 .. MaxAudioSeconds,
     chunk_duration : {2}, overlap_seconds : 0 .. 1,
     enable_deduplication : BOOLEAN]

\* process_video(video_path) is called on an empty database
InitBatch ==
    /\ ServerInit
    /\ threshold = SimilarityThreshold
    /\ evals = << >>
    /\ seg = NoSegment
    /\ chunks = << >>
    /\ merge = NotCalled
    /\ segments = NotCalled
    /\ ext = NotCalled
    /\ transcriptions = << >>
    /\ rows = NotCalled
    /\ \E v \in Videos :
          job = [phase |-> "called", video |-> v, source_id |-> NoId, fi |-> 1,
                 g |-> [sample_rate |-> 1, total_frames |-> v.audio_seconds,
                        chunk_duration |-> v.chunk_duration,
                        overlap_seconds |-> v.overlap_seconds,
                        start_frame |-> 0, chunk_index |-> 0],
                 attempts |-> << >>, frame_count |-> 0, transcript_count |-> 0,
                 audio_error |-> FALSE, after_frames |-> << >>, status |-> "running"]

batchRest == <<sessions, nextKey, inflight, now, lastOp, threshold, evals, seg, chunks,
               merge, segments, ext>>

\* parse_video_timestamp, get_video_info, connect, create_source
JobStart ==
    /\ job.phase = "called"
    /\ IF ~job.video.name_ok
       THEN /\ job' = [job EXCEPT !.phase = "done", !.status = "error"]
            /\ UNCHANGED sources
       ELSE /\ sources' = CreateVideoSource(sources, job.video.start,
                                            job.video.start + job.video.audio_seconds)
            /\ job' = [job EXCEPT !.phase = "frames", !.source_id = Len(sources) + 1]
    /\ UNCHANGED <<frames, timeline, last_hashes, transcriptions, rows, batchRest>>

\* _process_frames: one pass of the loop over the extracted frames
JobFrame ==
    /\ job.phase = "frames"
    /\ job.fi <= Len(job.video.hashes)
    /\ LET sid == job.source_id
           h == job.video.hashes[job.fi]
           t == job.video.start + (job.fi - 1) * job.video.interval
           d == IF job.video.enable_deduplication
                THEN ShouldStoreFrame(last_hashes, sid, h)
                ELSE [should_store |-> TRUE, similarity |-> 0, lh |-> last_hashes]
           same == FindSimilarFrame(frames, sid, h)
       IN  /\ last_hashes' = d.lh
           /\ IF d.should_store
              THEN /\ frames' = StoreFrame(frames, sid, t, h)
                   /\ timeline' = CreateTimelineEntry(timeline, sid, t, Len(frames) + 1,
                                                      d.similarity)
              ELSE IF same = {}
              THEN /\ frames' = frames
                   /\ timeline' = CreateTimelineEntry(timeline, sid, t, NoId, d.similarity)
              ELSE \E fid \in same :
                   /\ frames' = UpdateFrameLastSeen(frames, fid, t)
                   /\ timeline' = CreateTimelineEntry(timeline, sid, t, fid, d.similarity)
           /\ job' = [job EXCEPT !.fi = @ + 1,
                                 !.frame_count = IF d.should_store THEN @ + 1 ELSE @]
    /\ UNCHANGED <<sources, transcriptions, rows, batchRest>>

\* an exception in _process_frames reaches the outer handler of process_video
JobFramesRaise ==
    /\ job.phase = "frames"
    /\ job' = [job EXCEPT !.phase = "done", !.status = "error"]
    /\ UNCHANGED <<store, last_hashes, transcriptions, rows, batchRest>>

\* _process_frames returns; _process_audio extracts the audio track, or
\* returns 0 when there is none
JobAudioStart ==
    /\ job.phase = "frames"
    /\ job.fi > Len(job.video.hashes)
    /\ job' = [job EXCEPT !.phase = IF job.video.has_audio THEN "audio" ELSE "finish",
                          !.after_frames = <<frames, timeline>>]
    /\ UNCHANGED <<store, last_hashes, transcriptions, rows, batchRest>>

\* mutant: a failed chunk ends the loop
ChunkFailed_Abort(j, outcome) ==
    [j EXCEPT !.attempts = Append(@, [index |-> j.g.chunk_index, outcome |-> outcome,
                                      stored |-> NoId]),
              !.g.start_frame = j.g.total_frames]

\* transcribe_chunk raised: logged, continue with the next chunk
ChunkFailed(j, outcome) ==
    [j EXCEPT !.attempts = Append(@, [index |-> j.g.chunk_index, outcome |-> outcome,
                                      stored |-> NoId]),
              !.g.start_frame = @ + StepFrames(j.g),
              !.g.chunk_index = @ + 1]

\* _process_audio: one pass of the loop over get_audio_chunks
JobChunk(outcome) ==
    /\ job.phase = "audio"
    /\ job.g.start_frame < job.g.total_frames
    /\ LET c == YieldedChunk(job.g)
           chunk_start == job.video.start + c.start_frame \div c.sample_rate
           chunk_end == job.video.start + c.end_frame \div c.sample_rate
           tid == Len(transcriptions) + 1
       IN  IF outcome \in ChunkErrors
           THEN /\ job' = ChunkFailed(job, outcome)
                /\ UNCHANGED <<transcriptions, timeline>>
           ELSE IF outcome = "empty"
           THEN /\ job' = [job EXCEPT
                             !.attempts = Append(@, [index |-> c.index, outcome |-> outcome,
                                                     stored |-> NoId]),
                             !.g.start_frame = @ + StepFrames(job.g),
                             !.g.chunk_index = @ + 1]
                /\ UNCHANGED <<transcriptions, timeline>>
           ELSE /\ transcriptions' = StoreTranscription(transcriptions, job.source_id,
                                                        chunk_start, chunk_end, outcome)
                /\ timeline' = UpdateTimelineTranscriptions(timeline, job.source_id,
                                                            chunk_start, chunk_end, tid)
                /\ job' = [job EXCEPT
                             !.attempts = Append(@, [index |-> c.index, outcome |-> outcome,
                                                     stored |-> tid]),
                             !.transcript_count = @ + 1,
                             !.g.start_frame = @ + StepFrames(job.g),
                             !.g.chunk_index = @ + 1]
    /\ UNCHANGED <<sources, frames, last_hashes, rows, batchRest>>

\* an exception outside the per-chunk handler leaves _process_audio:
\* process_video logs it and sets transcript_count = 0
JobAudioRaise ==
    /\ job.phase = "audio"
    /\ job' = [job EXCEPT !.phase = "finish", !.transcript_count = 0, !.audio_error = TRUE]
    /\ UNCHANGED <<store, last_hashes, transcriptions, rows, batchRest>>

\* the generator is exhausted: _process_audio returns transcript_count
JobAudioEnd ==
    /\ job.phase = "audio"
    /\ job.g.start_frame >= job.g.total_frames
    /\ job' = [job EXCEPT !.phase = "finish"]
    /\ UNCHANGED <<store, last_hashes, transcriptions, rows, batchRest>>

\* update_source_end, the result dict, disconnect
JobFinish ==
    /\ job.phase = "finish"
    /\ sources' = UpdateSourceEnd(sources, job.source_id,
                                  job.video.start + job.video.audio_seconds)
    /\ job' = [job EXCEPT !.phase = "done", !.status = "success"]
    /\ UNCHANGED <<frames, timeline, last_hashes, transcriptions, rows, batchRest>>

\* ------------------------------------------------------------ timeline queries
\* limit and offset as the routes pass them by default
QueryLimit == 100

QueryOffset == 0

\* the rows of search_timeline's frame query
FrameRows(start, end, sid) ==
    { [entry_type |-> "frame", entry_id |-> i, source_id |-> timeline[i].source_id,
       timestamp |-> timeline[i].timestamp, frame_id |-> timeline[i].frame_id,
       transcription_id |-> NoId] :
      i \in { x \in 1 .. Len(timeline) :
                 /\ timeline[x].timestamp >= start /\ timeline[x].timestamp <= end
                 /\ (sid # NoId => timeline[x].source_id = sid) } }

\* the rows of search_timeline's transcription query
TranscriptionRows(start, end, sid) ==
    { [entry_type |-> "transcription", entry_id |-> i,
       source_id |-> transcriptions[i].source_id,
       timestamp |-> transcriptions[i].start, frame_id |-> NoId,
       transcription_id |-> i] :
      i \in { x \in 1 .. Len(transcriptions) :
                 /\ transcriptions[x].start >= start /\ transcriptions[x].start <= end
                 /\ (sid # NoId => transcriptions[x].source_id = sid) } }

\* the rows of get_timeline_range: timeline LEFT JOIN transcriptions on the
\* entry's transcription_id
RangeRows(start, end, sid) ==
    { [entry_type |-> "frame", entry_id |-> i, source_id |-> timeline[i].source_id,
       timestamp |-> timeline[i].timestamp, frame_id |-> timeline[i].frame_id,
       transcription_id |-> IF timeline[i].transcription_id \in 1 .. Len(transcriptions)
                            THEN timeline[i].transcription_id ELSE NoId] :
      i \in { x \in 1 .. Len(timeline) :
                 /\ timeline[x].timestamp >= start /\ timeline[x].timestamp <= end
                 /\ (sid # NoId => timeline[x].source_id = sid) } }

\* ORDER BY timestamp: the orders in which the rows may come back
OrderedByTimestamp(rs) ==
    { r \in [1 .. Cardinality(rs) -> rs] :
         /\ \A i, j \in 1 .. Cardinality(rs) : i # j => r[i] # r[j]
         /\ \A i, j \in 1 .. Cardinality(rs) : i < j => r[i].timestamp <= r[j].timestamp }

\* LIMIT ... OFFSET ...
Page(r) == SubSeq(r, QueryOffset + 1, Min(Len(r), QueryOffset + QueryLimit))

\* SearchService.search_timeline(start, end, source_id)
SearchTimeline(start, end, sid) ==
    /\ job.phase = "done"
    /\ rows.phase = "idle"
    /\ start <= end
    /\ \E r \in OrderedByTimestamp(FrameRows(start, end, sid)
                                    \cup TranscriptionRows(start, end, sid)) :
          rows' = [phase |-> "done", query |-> "search_timeline", start |-> start,
                   end |-> end, source_id |-> sid, entries |-> Page(r)]
    /\ UNCHANGED <<store, last_hashes, transcriptions, job, batchRest>>

\* Database.get_timeline_range(start, end, source_id)
GetTimelineRange(start, end, sid) ==
    /\ job.phase = "done"
    /\ rows.phase = "idle"
    /\ start <= end
    /\ \E r \in OrderedByTimestamp(RangeRows(start, end, sid)) :
          rows' = [phase |-> "done", query |-> "get_timeline_range", start |-> start,
                   end |-> end, source_id |-> sid, entries |-> r]
    /\ UNCHANGED <<store, last_hashes, transcriptions, job, batchRest>>

NextBatch ==
    \/ JobStart
    \/ JobFrame
    \/ JobFramesRaise
    \/ JobAudioStart
    \/ \E outcome \in ChunkOutcomes : JobChunk(outcome)
    \/ JobAudioRaise
    \/ JobAudioEnd
    \/ JobFinish
    \/ \E start \in 0 .. MaxQueryTime, end \in 0 .. MaxQueryTime, sid \in {NoId, 1} :
          SearchTimeline(start, end, sid)
    \/ \E start \in 0 .. MaxQueryTime, end \in 0 .. MaxQueryTime, sid \in {NoId, 1} :
          GetTimelineRange(start, end, sid)

\* one batch job on one video, then one timeline query
SpecBatch == InitBatch /\ [][NextBatch]_vars

\* ===================================================================== claims
StoreUnchanged == sources' = sources /\ frames' = frames /\ timeline' = timeline

AllUnchanged == sessions' = sessions /\ StoreUnchanged /\ last_hashes' = last_hashes

KeyOps == {"on_publish", "ingest_frame", "on_publish_done", "stop_stream", "delete_session"}

\* a key that was handed out and whose session has been deleted
Deleted(k) == k < nextKey /\ k \notin DOMAIN sessions

\* C1: a session's status changes only waiting -> live, live -> ended,
\* ended -> live, or from any status to error.
C1_StatusTransitions ==
    [][\A k \in DOMAIN sessions \cap DOMAIN sessions' :
          LET a == sessions[k].status
              b == sessions'[k].status
          IN  \/ a = b
              \/ a = "waiting" /\ b = "live"
              \/ a = "live" /\ b = "ended"
              \/ a = "ended" /\ b = "live"
              \/ b = "error"]_vars

\* C2: ingest_frame for a key whose session is not live (or is unknown)
\* returns False and changes no session field, no Source, Frame or Timeline
\* row and no dedup baseline.
C2_IngestNotLive ==
    [][(lastOp'.op = "ingest_frame" /\ PreStatus(lastOp'.key) # "live")
          => (~lastOp'.ok /\ AllUnchanged)]_vars

C2_Witness ==
    /\ lastOp.op = "ingest_frame"
    /\ ~lastOp.ok
    /\ lastOp.pre = "ended"
    /\ \E f \in 1 .. Len(frames) : frames[f].source_id = sessions[lastOp.key].source_id

\* C3: on_publish with a key that no session owns returns False for every
\* client address, opens no Source and changes no session; a deleted key is
\* such a key.
C3_UnknownKeyRejected ==
    [][(lastOp'.op = "on_publish" /\ lastOp'.key \notin DOMAIN sessions)
          => (~lastOp'.ok /\ AllUnchanged)]_vars

C3_Witness ==
    /\ lastOp.op = "on_publish"
    /\ ~lastOp.ok
    /\ lastOp.arg \in Addrs
    /\ Deleted(lastOp.key)
    /\ \E k \in DOMAIN sessions : sessions[k].status = "waiting"

\* C4: on_publish on a known key returns True only from waiting or ended; on a
\* live or error session it returns False and changes nothing; an accept
\* opens a Source with a new id, sets status live, records the client address
\* and the start time, zeroes frames_received and frames_stored and keeps
\* session_id and stream_key.
C4_AcceptPublish ==
    [][(lastOp'.op = "on_publish" /\ lastOp'.key \in DOMAIN sessions)
          => LET k == lastOp'.key
                 s == sessions[k]
                 t == sessions'[k]
             IN  /\ lastOp'.ok => s.status \in {"waiting", "ended"}
                 /\ s.status \in {"live", "error"} => (~lastOp'.ok /\ AllUnchanged)
                 /\ lastOp'.ok =>
                      /\ Len(sources') = Len(sources) + 1
                      /\ t.source_id = Len(sources')
                      /\ \A x \in DOMAIN sessions : sessions[x].source_id # t.source_id
                      /\ sources'[t.source_id].start = now
                      /\ sources'[t.source_id].end = NoTime
                      /\ t.status = "live"
                      /\ t.client_addr = lastOp'.arg
                      /\ t.started_at = now
                      /\ t.frames_received = 0
                      /\ t.frames_stored = 0
                      /\ t.session_id = s.session_id
                      /\ t.stream_key = s.stream_key]_vars

\* a reconnect of the only session ever created, after it received frames
C4_Witness ==
    /\ lastOp.op = "on_publish"
    /\ lastOp.ok
    /\ lastOp.pre = "ended"
    /\ sessions[lastOp.key].source_id = 2
    /\ Len(timeline) > 0
    /\ sessions[lastOp.key].frames_received = 0

\* sessions that are waiting or live
ActiveCount == Cardinality({k \in DOMAIN sessions : sessions[k].status \in {"waiting", "live"}})

\* C5: create_session raises exactly when the number of waiting or live
\* sessions is at least max_streams; a failed call adds no session and a
\* successful one adds exactly one session, in status waiting.
C5_CapacityIffActive ==
    [][lastOp'.op = "create_session"
          => /\ ~lastOp'.ok <=> ActiveCount >= MaxStreams
             /\ ~lastOp'.ok => sessions' = sessions
             /\ lastOp'.ok =>
                  /\ DOMAIN sessions' = DOMAIN sessions \cup {lastOp'.key}
                  /\ lastOp'.key \notin DOMAIN sessions
                  /\ sessions'[lastOp'.key].status = "waiting"
                  /\ \A k \in DOMAIN sessions : sessions'[k] = sessions[k]]_vars

StopOps == {"on_publish_done", "stop_stream"}

\* C6: on_publish_done or stop_stream on a live session sets status ended,
\* sets the end timestamp of the backing Source and removes the dedup baseline
\* of that source; the first frame evaluated for a source (so also the first
\* one after a reconnect) is stored, with similarity 0.
C6_StopLive ==
    [][/\ (lastOp'.op \in StopOps /\ lastOp'.pre = "live") =>
             LET k == lastOp'.key
                 sid == sessions[k].source_id
             IN  /\ lastOp'.ok
                 /\ sessions'[k].status = "ended"
                 /\ sources'[sid].end = now
                 /\ sid \notin DOMAIN last_hashes'
       /\ (/\ lastOp'.op = "ingest_frame"
           /\ lastOp'.pre = "live"
           /\ Len(timeline') > Len(timeline)
           /\ \A e \in 1 .. Len(timeline) :
                 timeline[e].source_id # sessions[lastOp'.key].source_id) =>
             LET e == timeline'[Len(timeline')] IN
             /\ Len(frames') = Len(frames) + 1
             /\ e.frame_id = Len(frames')
             /\ e.similarity = 0]_vars

\* after a reconnect the session stores a frame with the very fingerprint it
\* stored last before the stop
C6_Witness ==
    /\ lastOp.op = "ingest_frame"
    /\ lastOp.ok
    /\ nextKey = 2
    /\ sessions[lastOp.key].source_id = 2
    /\ sources[1].end # NoTime
    /\ Len(frames) = 2
    /\ frames[1].source_id = 1
    /\ frames[2].source_id = 2
    /\ frames[1].hash = frames[2].hash
    /\ timeline[Len(timeline)].similarity = 0

\* C7: delete_session on an existing key stops the session if it is live (its
\* Source gets its end timestamp) and removes it, leaving the other sessions
\* alone; from then on the key stays unknown and every call with it returns
\* False and changes nothing.
C7_DeleteSession ==
    [][/\ (lastOp'.op = "delete_session" /\ lastOp'.key \in DOMAIN sessions) =>
             LET k == lastOp'.key
                 sid == sessions[k].source_id
             IN  /\ lastOp'.ok
                 /\ DOMAIN sessions' = DOMAIN sessions \ {k}
                 /\ \A x \in DOMAIN sessions' : sessions'[x] = sessions[x]
                 /\ frames' = frames
                 /\ timeline' = timeline
                 /\ IF lastOp'.pre = "live"
                    THEN /\ sources' = [sources EXCEPT ![sid].end = now]
                         /\ sid \notin DOMAIN last_hashes'
                    ELSE sources' = sources
       /\ (lastOp'.op \in KeyOps /\ Deleted(lastOp'.key)) => (~lastOp'.ok /\ AllUnchanged)
       /\ \A k \in 1 .. MaxKeys : Deleted(k) => k \notin DOMAIN sessions']_vars

C7_Witness ==
    /\ lastOp.op = "delete_session"
    /\ lastOp.ok
    /\ lastOp.pre = "live"
    /\ Deleted(lastOp.key)
    /\ Len(timeline) > 0
    /\ \A i \in 1 .. Len(sources) : sources[i].end # NoTime

\* C8: stopping or deleting a session never touches the Frames and Timeline
\* rows already written; an ingest_frame call either writes nothing or writes
\* its Timeline row together with the Frame it stored, so every stored Frame
\* has its Timeline row; and a call that finds the status not live writes
\* nothing.
C8_StopDuringIngest ==
    [][/\ lastOp'.op \in StopOps \cup {"delete_session"} =>
             (frames' = frames /\ timeline' = timeline)
       /\ lastOp'.op = "ingest_frame" =>
             /\ lastOp'.pre # "live" => (StoreUnchanged /\ last_hashes' = last_hashes)
             /\ \/ frames' = frames /\ timeline' = timeline
                \/ /\ Len(timeline') = Len(timeline) + 1
                   /\ SubSeq(timeline', 1, Len(timeline)) = timeline
                   /\ Len(frames') \in {Len(frames), Len(frames) + 1}
                   /\ Len(frames') = Len(frames) + 1 =>
                         /\ timeline'[Len(timeline')].frame_id = Len(frames')
                         /\ SubSeq(frames', 1, Len(frames)) = frames
       /\ \A f \in 1 .. Len(frames') : \E e \in 1 .. Len(timeline') :
             /\ timeline'[e].frame_id = f
             /\ timeline'[e].source_id = frames'[f].source_id]_vars

\* a live session is stopped while a frame request for it is in flight
C8_Witness ==
    /\ lastOp.op \in StopOps \cup {"delete_session"}
    /\ lastOp.pre = "live"
    /\ inflight[lastOp.key] > 0
    /\ Len(frames) > 0

\* the most recently stored Frame of a source, NoId when it has none
LastStored(sid) ==
    LET ids == {i \in 1 .. Len(frames) : frames[i].source_id = sid} IN
    IF ids = {} THEN NoId ELSE CHOOSE i \in ids : \A j \in ids : j <= i

C10_NoSimilarStoredFrames ==
    \A i, j \in 1 .. Len(frames) :
        (i < j /\ frames[i].source_id = frames[j].source_id) =>
            CalculateSimilarity(frames[i].hash, frames[j].hash)
                < SimilarityThreshold * MaxDistance

\* the baseline of source s after the first n recorded calls, as the call
\* history gives it: << >> for none, <<h>> for fingerprint h
HistBaseline(s, n) ==
    LET idx == {i \in 1 .. n :
                   /\ evals[i].source = s
                   /\ \/ evals[i].op = "reset_source"
                      \/ evals[i].op = "should_store_frame" /\ evals[i].should_store}
    IN  IF idx = {} THEN << >>
        ELSE LET m == CHOOSE i \in idx : \A j \in idx : j <= i IN
             IF evals[m].op = "reset_source" THEN << >> ELSE <<evals[m].hash>>

\* C11: the remembered baseline of a source is the fingerprint of its most
\* recent observation that was judged should_store (none after a reset), and
\* every decision taken against a baseline is should_store = (similarity to
\* that baseline < threshold); a duplicate leaves the baseline alone.
C11_BaselineIsLastStored ==
    /\ \A s \in 1 .. MaxEvalSources :
          LET b == HistBaseline(s, Len(evals)) IN
          IF b = << >> THEN s \notin DOMAIN last_hashes
          ELSE s \in DOMAIN last_hashes /\ last_hashes[s] = b[1]
    /\ \A i \in 1 .. Len(evals) :
          LET b == HistBaseline(evals[i].source, i - 1) IN
          (evals[i].op = "should_store_frame" /\ b # << >>) =>
             LET sim == (MaxDistance - HammingDistance(evals[i].hash, b[1])) * 100 IN
             /\ evals[i].similarity = sim
             /\ evals[i].should_store <=> (sim < threshold * MaxDistance)

\* threshold 95, four frames of one source decided true, false, true, false,
\* where the fourth is a duplicate of the third but not of the second
C11_Witness ==
    /\ threshold = 95
    /\ Len(evals) = 4
    /\ \A i \in 1 .. 4 : evals[i].op = "should_store_frame" /\ evals[i].source = 1
    /\ evals[1].should_store
    /\ ~evals[2].should_store
    /\ evals[3].should_store
    /\ ~evals[4].should_store
    /\ CalculateSimilarity(evals[4].hash, evals[2].hash) < 95 * MaxDistance

\* C12: two should_store_frame calls with the same image on the same source
\* and no call for that source in between: the second returns should_store
\* false with a similarity at or above the threshold and the same fingerprint.
C12_TwiceInARow ==
    \A i, j \in 1 .. Len(evals) :
        (/\ i < j
         /\ evals[i].op = "should_store_frame"
         /\ evals[j].op = "should_store_frame"
         /\ evals[i].source = evals[j].source
         /\ evals[i].hash = evals[j].hash
         /\ \A k \in (i + 1) .. (j - 1) : evals[k].source # evals[i].source) =>
            /\ ~evals[j].should_store
            /\ evals[j].similarity >= threshold * MaxDistance
            /\ evals[j].hash = evals[i].hash

\* threshold 100: the same image twice on source 1, a call for source 2 in
\* between, the first of the two itself stored as different from its baseline
C12_Witness ==
    /\ threshold = 100
    /\ Len(evals) = 4
    /\ evals[1].op = "should_store_frame" /\ evals[1].source = 1
    /\ evals[2].op = "should_store_frame" /\ evals[2].source = 1
    /\ evals[2].should_store
    /\ evals[3].source = 2
    /\ evals[4].op = "should_store_frame" /\ evals[4].source = 1
    /\ evals[4].hash = evals[2].hash
    /\ ~evals[4].should_store

\* C13: should_store_frame on a source without a baseline (never evaluated,
\* or reset since) returns should_store true and similarity 0; a call for one
\* source leaves every other source's baseline as it was; reset_source on a
\* source without a baseline changes nothing.
C13_PerSourceBaseline ==
    [][LET r == evals'[Len(evals')]
           s == r.source
       IN  /\ \A o \in (1 .. MaxEvalSources) \ {s} :
                 /\ o \in DOMAIN last_hashes' <=> o \in DOMAIN last_hashes
                 /\ o \in DOMAIN last_hashes => last_hashes'[o] = last_hashes[o]
           /\ (r.op = "should_store_frame" /\ HistBaseline(s, Len(evals)) = << >>) =>
                 (r.should_store /\ r.similarity = 0)
           /\ (r.op = "reset_source" /\ s \notin DOMAIN last_hashes) =>
                 last_hashes' = last_hashes]_vars

\* source 2 is evaluated, reset and evaluated again with the same image while
\* source 1 keeps its baseline
C13_Witness ==
    /\ Len(evals) = 4
    /\ 1 \in DOMAIN last_hashes
    /\ evals[3].op = "reset_source" /\ evals[3].source = 2
    /\ evals[4].op = "should_store_frame" /\ evals[4].source = 2
    /\ evals[4].should_store /\ evals[4].similarity = 0
    /\ \E i \in 1 .. 2 : /\ evals[i].op = "should_store_frame"
                         /\ evals[i].source = 2
                         /\ evals[i].hash = evals[4].hash

\* C14: the similarity of two 256-bit fingerprints at Hamming distance d is
\* (1 - d/256) x 100 (recorded similarities are numerators over MaxDistance).
C14_SimilarityFormula ==
    \A i \in 1 .. Len(evals) :
        LET b == HistBaseline(evals[i].source, i - 1) IN
        (evals[i].op = "should_store_frame" /\ b # << >>) =>
            evals[i].similarity * HashBits
               = (HashBits - HammingDistance(evals[i].hash, b[1])) * 100 * MaxDistance

\* C15: an observation judged a duplicate gets a Timeline row that references
\* the most recently stored Frame of its source, and that Frame's last-seen
\* timestamp becomes the observation's timestamp; no other Frame changes and
\* no Frame is deleted.
C15_DuplicateReferencesBaseline ==
    [][/\ Len(frames') >= Len(frames)
       /\ (/\ lastOp'.op = "ingest_frame"
           /\ lastOp'.arg = "ok"
           /\ Len(timeline') = Len(timeline) + 1
           /\ Len(frames') = Len(frames)) =>
             LET b == LastStored(sessions[lastOp'.key].source_id) IN
             /\ b # NoId
             /\ timeline'[Len(timeline')].frame_id = b
             /\ frames' = [frames EXCEPT ![b].last_seen = now]]_vars

\* C16: the Timeline gets exactly one row for every ingest_frame call that
\* returns True and none otherwise; rows are only appended.
C16_OneEntryPerAcceptedFrame ==
    [][/\ Len(timeline') >= Len(timeline)
       /\ SubSeq(timeline', 1, Len(timeline)) = timeline
       /\ lastOp'.op = "ingest_frame" =>
             IF lastOp'.ok
             THEN /\ Len(timeline') = Len(timeline) + 1
                  /\ timeline'[Len(timeline')].source_id = sessions[lastOp'.key].source_id
             ELSE timeline' = timeline
       /\ lastOp'.op # "ingest_frame" => timeline' = timeline]_vars

\* C17: a frame whose bytes cannot be decoded is dropped alone: the session
\* stays live with its processor, no Source, Frame or Timeline row is written
\* or changed, the baseline stays, and every well-formed frame that could
\* come next is decided and looked up exactly as before the bad frame.
C17_MalformedFrameDropped ==
    [][(lastOp'.op = "ingest_frame" /\ lastOp'.arg \in {"malformed", "truncated"}) =>
          LET k == lastOp'.key
              sid == sessions[k].source_id
          IN  /\ lastOp'.pre = "live"
              /\ sessions'[k].status = "live"
              /\ sessions'[k].processor = sessions[k].processor
              /\ sessions'[k].source_id = sid
              /\ StoreUnchanged
              /\ last_hashes' = last_hashes
              /\ \A img \in Images : img.kind = "ok" =>
                    /\ ShouldStoreFrame(last_hashes', sid, img.hash)
                          = ShouldStoreFrame(last_hashes, sid, img.hash)
                    /\ FindSimilarFrame(frames', sid, img.hash)
                          = FindSimilarFrame(frames, sid, img.hash)]_vars

\* bytes that Image.open rejects arrive after the session has stored a frame
C17_Witness ==
    /\ lastOp.op = "ingest_frame"
    /\ lastOp.arg = "malformed"
    /\ lastOp.pre = "live"
    /\ sessions[lastOp.key].status = "live"
    /\ sessions[lastOp.key].frames_received >= 2
    /\ Len(frames) >= 1
    /\ sessions[lastOp.key].source_id \in DOMAIN last_hashes

\* C18: with 0 <= overlap < chunk duration the chunks come in order with
\* indexes 0, 1, 2, ...; the first starts at 0, each later one starts after
\* its predecessor's start and no later than its predecessor's end, none
\* extends past the audio, and when the generator is exhausted the last chunk
\* ends exactly at the end of the audio.  10 s, chunk 5, overlap 1 gives
\* [0,5], [4,9], [8,10].
C18_ChunksCoverStream ==
    seg.phase # "idle" /\ seg.overlap_seconds < seg.chunk_duration =>
       /\ \A i \in 1 .. Len(chunks) :
             /\ chunks[i].index = i - 1
             /\ chunks[i].start_frame < chunks[i].end_frame
             /\ chunks[i].end_frame <= seg.total_frames
             /\ i = 1 => chunks[i].start_frame = 0
             /\ i > 1 => /\ chunks[i].start_frame > chunks[i - 1].start_frame
                         /\ chunks[i].start_frame <= chunks[i - 1].end_frame
       /\ (seg.phase = "done" /\ seg.total_frames > 0) =>
             /\ Len(chunks) >= 1
             /\ chunks[Len(chunks)].end_frame = seg.total_frames
       /\ (/\ seg.phase = "done" /\ seg.sample_rate = 1 /\ seg.total_frames = 10
           /\ seg.chunk_duration = 5 /\ seg.overlap_seconds = 1) =>
             [i \in 1 .. Len(chunks) |-> <<chunks[i].start_frame, chunks[i].end_frame>>]
                = << <<0, 5>>, <<4, 9>>, <<8, 10>> >>

\* the 10 s example has been chunked to the end
C18_Witness ==
    /\ seg.phase = "done"
    /\ seg.sample_rate = 1
    /\ seg.total_frames = 10
    /\ seg.chunk_duration = 5
    /\ seg.overlap_seconds = 1
    /\ Len(chunks) = 3
    /\ chunks[3].end_frame - chunks[3].start_frame < ChunkFrames(seg)

\* C19: with 0 < overlap < chunk duration, every chunk but the first records
\* an overlap start equal to its own start and the first records none; a
\* chunk records an overlap end exactly when a successor chunk exists, and
\* the recorded bound is the successor's start.
C19_OverlapBounds ==
    (seg.phase = "done" /\ 0 < seg.overlap_seconds
        /\ seg.overlap_seconds < seg.chunk_duration) =>
       \A i \in 1 .. Len(chunks) :
          /\ chunks[i].overlap_start = IF i = 1 THEN None ELSE Some(chunks[i].start_frame)
          /\ chunks[i].overlap_end # None <=> i < Len(chunks)
          /\ chunks[i].overlap_end # None =>
                chunks[i].overlap_end = Some(chunks[i + 1].start_frame)

\* C20: with overlap >= chunk duration the chunks are those of overlap 0:
\* [i*C, min((i+1)*C, T)], none flagged as overlapping, no overlap bound.
C20_LargeOverlapIsNoOverlap ==
    (seg.phase = "done" /\ seg.overlap_seconds >= seg.chunk_duration) =>
       \A i \in 1 .. Len(chunks) :
          /\ chunks[i].start_frame = (i - 1) * ChunkFrames(seg)
          /\ chunks[i].end_frame = Min(i * ChunkFrames(seg), seg.total_frames)
          /\ ~chunks[i].has_overlap
          /\ chunks[i].overlap_start = None
          /\ chunks[i].overlap_end = None

\* C28: on a live session frames_received counts the frames received since
\* the publish was accepted and frames_stored counts those for which a new
\* Frame was stored: frames_stored <= frames_received and frames_stored is
\* the number of Frames of the backing Source.
C28_CountersMatchStore ==
    \A k \in DOMAIN sessions :
        sessions[k].status = "live" =>
            /\ sessions[k].frames_stored <= sessions[k].frames_received
            /\ sessions[k].frames_stored
                  = Cardinality({f \in 1 .. Len(frames) :
                                    frames[f].source_id = sessions[k].source_id})

\* C30: a live session has a processor and a backing source id; a waiting or
\* ended session has no processor.
C30_ProcessorIffLive ==
    \A k \in DOMAIN sessions :
        /\ sessions[k].status = "live" =>
              /\ sessions[k].processor.exists
              /\ sessions[k].processor.active
              /\ sessions[k].source_id # NoId
              /\ sessions[k].processor.source_id = sessions[k].source_id
        /\ sessions[k].status \in {"waiting", "ended"} =>
              sessions[k].processor = NoProcessor

\* a session that was live, then failed a reconnect (status error), is ended
\* by on_publish_done and is left without a processor
C30_Witness ==
    /\ lastOp.op = "on_publish_done"
    /\ lastOp.pre = "error"
    /\ sessions[lastOp.key].status = "ended"
    /\ sessions[lastOp.key].source_id # NoId
    /\ sessions[lastOp.key].processor = NoProcessor

\* ------------------------------------------------------------------ text merger
LowerSeq(ws) == [i \in 1 .. Len(ws) |-> Lower(ws[i])]

\* the text b occurs in the text a as a run of words, ignoring case
Occurs(b, a) ==
    \E j \in 0 .. Len(a) - Len(b) : LowerSeq(SubSeq(a, j + 1, j + Len(b))) = LowerSeq(b)

\* the lengths k >= 3 for which the last k words of f1 are the first k of f2
Boundaries(f1, f2) ==
    {k \in 3 .. Min(Len(f1), Len(f2)) :
        LowerSeq(SubSeq(f1, Len(f1) - k + 1, Len(f1))) = LowerSeq(SubSeq(f2, 1, k))}

MergedPair == merge.phase = "done" /\ Len(merge.texts) = 2

Found(f1, f2) == BestMatch(f1, f2, OverlapThreshold, 0, [len |-> 0, start |-> -1])

\* C22: when an overlap is detected between two fragments, the output is
\* fragment 1's words before the match, then the matched words as written by
\* the more confident fragment (fragment 1 on a tie), then fragment 2's words
\* after the match; and every word of either fragment outside the matched
\* words occurs in the output.
C22_SpliceKeepsAllWords ==
    (MergedPair /\ FindOverlap(merge.texts[1].text, merge.texts[2].text, OverlapThreshold) # None) =>
        LET f1 == merge.texts[1].text
            f2 == merge.texts[2].text
            b == Found(f1, f2)
            overlap == IF merge.texts[2].confidence > merge.texts[1].confidence
                       THEN SubSeq(f2, 1, b.len)
                       ELSE SubSeq(f1, b.start + 1, b.start + b.len)
            outside == SubSeq(f1, 1, b.start) \o SubSeq(f1, b.start + b.len + 1, Len(f1))
                       \o SubSeq(f2, b.len + 1, Len(f2))
        IN  /\ merge.out = SubSeq(f1, 1, b.start) \o overlap \o SubSeq(f2, b.len + 1, Len(f2))
            /\ \A i \in 1 .. Len(outside) : Occurs(<<outside[i]>>, merge.out)

\* no run of at least three matching words covers the overlap ratio of its
\* candidate window
NoQualifyingOverlap(f1, f2) ==
    \/ Len(f1) < 3
    \/ Len(f2) < 3
    \/ \A start_idx \in 0 .. Len(f1) - 3 :
          LET m == CommonLen(SubSeq(f1, start_idx + 1, Len(f1)), f2, 0) IN
          ~(m >= 3 /\ m * 100 >= OverlapThreshold * Min(Len(f2), Len(f1) - start_idx))

RECURSIVE AllWords(_)
\* the words of all fragments in their original order
AllWords(ts) == IF ts = << >> THEN << >> ELSE Head(ts).text \o AllWords(Tail(ts))

\* C23: when no two adjacent fragments have a qualifying overlap, the merged
\* text is all words of all fragments in order; the merge of no fragment is
\* the empty text and the merge of one fragment is that fragment.
C23_NoOverlapKeepsAll ==
    merge.phase = "done" =>
        /\ merge.texts = << >> => merge.out = << >>
        /\ Len(merge.texts) = 1 => merge.out = merge.texts[1].text
        /\ (\A i \in 1 .. Len(merge.texts) - 1 :
               NoQualifyingOverlap(merge.texts[i].text, merge.texts[i + 1].text))
           => merge.out = AllWords(merge.texts)

\* three fragments of three words each, neighbours sharing two words only
C23_Witness ==
    /\ merge.phase = "done"
    /\ Len(merge.texts) = 3
    /\ \A i \in 1 .. 3 : Len(merge.texts[i].text) = 3
    /\ \A i \in 1 .. 2 :
          /\ NoQualifyingOverlap(merge.texts[i].text, merge.texts[i + 1].text)
          /\ SubSeq(merge.texts[i].text, 2, 3) = SubSeq(merge.texts[i + 1].text, 1, 2)
    /\ Len(merge.out) = 9

\* --------------------------------------------------------- segment deduplication
\* the time windows of two segments overlap
WindowsOverlap(a, b) == a.start < b.end /\ b.start < a.end

\* C24: the segments returned are sorted by start time and no two of them have
\* overlapping windows and the same text ignoring case; two overlapping
\* segments with the same text come back as the earlier one with its end moved
\* to the later of the two ends; a segment whose window overlaps no other
\* segment of the input is returned unchanged.
C24_NoOverlappingDuplicates ==
    segments.phase = "done" =>
        LET inp == segments.input
            out == segments.deduplicated
        IN  /\ \A i, j \in 1 .. Len(out) : i < j => out[i].start <= out[j].start
            /\ \A i, j \in 1 .. Len(out) :
                  i < j => ~(WindowsOverlap(out[i], out[j])
                             /\ SegLower(out[i].text) = SegLower(out[j].text))
            /\ (Len(inp) = 2 /\ WindowsOverlap(inp[1], inp[2])
                   /\ SegLower(inp[1].text) = SegLower(inp[2].text)) =>
                  LET s == SortByStart(inp) IN
                  out = <<[s[1] EXCEPT !.end = IF s[2].end > @ THEN s[2].end ELSE @]>>
            /\ \A i \in 1 .. Len(inp) :
                  (\A j \in 1 .. Len(inp) : j # i => ~WindowsOverlap(inp[i], inp[j]))
                     => \E k \in 1 .. Len(out) : out[k] = inp[i]

\* ------------------------------------------------------------- frame extractor
\* C29: when the stream has been read to its end, the frames posted are the
\* images of the stream, each once, byte for byte and in stream order,
\* wherever the reads divided the stream.
C29_PostsEachImageOnce == ext.phase = "done" => ext.posted = ext.images

\* -------------------------------------------------------------------- batch job
\* the chunks get_audio_chunks yields for the job's audio
RECURSIVE ChunkCount(_)
ChunkCount(g) ==
    IF g.start_frame >= g.total_frames THEN 0
    ELSE 1 + ChunkCount([g EXCEPT !.start_frame = @ + StepFrames(g), !.chunk_index = @ + 1])

\* the timeline without its links to transcriptions
Unlinked(tl) == [i \in 1 .. Len(tl) |-> [tl[i] EXCEPT !.transcription_id = NoId]]

\* the job ran to its end with a per-chunk error and no other failure
JobWithChunkError ==
    /\ job.phase = "done"
    /\ job.video.name_ok
    /\ job.status # "error"
    /\ ~job.audio_error
    /\ \E i \in 1 .. Len(job.attempts) : job.attempts[i].outcome \in ChunkErrors

\* C25: in a job in which transcription of a chunk failed with a per-chunk
\* error, nothing is stored for that chunk, every chunk of the audio is still
\* attempted and every one that yields text or a non-speech marker is stored
\* with its window, the frames and timeline entries written before the audio
\* are kept, and the job ends with status success.
C25_ChunkErrorIsolated ==
    JobWithChunkError =>
        /\ job.status = "success"
        /\ Len(job.attempts) = ChunkCount([job.g EXCEPT !.start_frame = 0, !.chunk_index = 0])
        /\ \A i \in 1 .. Len(job.attempts) :
              /\ job.attempts[i].index = i - 1
              /\ job.attempts[i].outcome \in ChunkErrors \cup {"empty"}
                    => job.attempts[i].stored = NoId
              /\ job.attempts[i].outcome \in {"text", "non_speech"}
                    => /\ job.attempts[i].stored \in 1 .. Len(transcriptions)
                       /\ transcriptions[job.attempts[i].stored].source_id = job.source_id
                       /\ transcriptions[job.attempts[i].stored].text = job.attempts[i].outcome
        /\ Len(transcriptions)
              = Cardinality({i \in 1 .. Len(job.attempts) : job.attempts[i].stored # NoId})
        /\ frames = job.after_frames[1]
        /\ Unlinked(timeline) = Unlinked(job.after_frames[2])

\* a job with a frame and two chunks: the first timed out, the second was stored
C25_Witness ==
    /\ JobWithChunkError
    /\ Len(frames) >= 1
    /\ Len(job.attempts) = 2
    /\ job.attempts[1].outcome = "timeout"
    /\ job.attempts[2].outcome = "text"
    /\ Len(transcriptions) = 1

\* C26: once a transcription attempt has failed because the transcriber is
\* unavailable, the job attempts no further chunk; its frames and timeline
\* entries are kept.
C26_UnavailableStopsAudio ==
    /\ \A i \in 1 .. Len(job.attempts) :
          job.attempts[i].outcome = "unavailable" => i = Len(job.attempts)
    /\ (job.phase \in {"audio", "finish"} \/ (job.phase = "done" /\ job.after_frames # << >>))
          => /\ frames = job.after_frames[1]
             /\ Unlinked(timeline) = Unlinked(job.after_frames[2])

\* -------------------------------------------------------------- timeline query
\* the timeline entries a query for [start, end] and source sid has to return
EntriesInRange(start, end, sid) ==
    { i \in 1 .. Len(timeline) :
         /\ timeline[i].timestamp >= start /\ timeline[i].timestamp <= end
         /\ (sid # NoId => timeline[i].source_id = sid) }

\* the transcriptions of entry i's source whose [start, end] holds its timestamp
ActiveTranscriptions(i) ==
    { t \in 1 .. Len(transcriptions) :
         /\ transcriptions[t].source_id = timeline[i].source_id
         /\ transcriptions[t].start <= timeline[i].timestamp
         /\ timeline[i].timestamp <= transcriptions[t].end }

\* the rows returned are one per timeline entry of the range, each with an
\* active transcription when there is one
OneRowPerEntry ==
    LET es == EntriesInRange(rows.start, rows.end, rows.source_id) IN
    /\ Len(rows.entries) = Cardinality(es)
    /\ \A i \in es :
          \E n \in 1 .. Len(rows.entries) :
             /\ rows.entries[n].entry_type = "frame"
             /\ rows.entries[n].entry_id = i
             /\ ActiveTranscriptions(i) # {}
                   => rows.entries[n].transcription_id \in ActiveTranscriptions(i)

\* C27: the timeline query returns exactly one row per timeline entry in the
\* range (of the source, if one is given), and the row carries a transcription
\* of the entry's source whose window holds the entry's timestamp whenever
\* there is one.
C27_TimelineQuery ==
    (rows.phase = "done" /\ rows.query = "search_timeline") => OneRowPerEntry

====
